---- MODULE Spec2Model ----
(***************************************************************************)
(* Endpoint picker of gateway-api-inference-extension: the datastore (pod  *)
(* map, session table with TTL sweep, model registry, pool) and the        *)
(* scheduling pipeline (filter decision tree, scorers, Schedule).          *)
(*                                                                         *)
(* Units: time is counted in ticks of 15 minutes; KV-cache utilization and *)
(* scores are counted in hundredths (0.8 is 80, 1.0 is 100).               *)
(***************************************************************************)
EXTENDS Integers, Sequences, FiniteSets, TLC

VARIABLES
    pods,          \* datastore.pods: NamespacedName -> PodMetrics
    sessions,      \* datastore.sessions: session id -> sessionInfo
    schedPc,       \* position of the Schedule call in flight
    schedReq,      \* its LLMRequest
    PodsSnapshot,  \* sCtx.PodsSnapshot
    filterOut,     \* what filter.Filter returned: pods, err, filters run
    schedRet,      \* what Schedule returned: targetPod, err
    now,           \* wall clock
    parentCtxDone, \* datastore.parentCtx is cancelled
    nextTick,      \* when the cleanup ticker fires next
    sweepPc,       \* position of cleanupSessions
    sweepNow,      \* the tick time the sweep in progress received
    sweepKeys,     \* session ids the Range of the sweep has still to visit
    sweepKey,      \* session id the sweep is handling
    lastSet,       \* history: the last completed SetPodForSession of each session
    pool,          \* datastore.pool
    models,        \* datastore.models: ModelName -> InferenceModel
    cluster,       \* InferenceModel objects in the API server
    submitted,     \* history: last version of each object given to ModelSetIfOlder
    recreated,     \* history: an object came back with another creation timestamp
    renamed,       \* history: an object came back with another model name
    modelRet,      \* what the last model operation returned
    mu,            \* datastore.poolAndModelsMu
    lockPc,        \* position of each caller of the locked operations
    poolGetRet,    \* what the last PoolGet of each reader returned
    podHandle,     \* datastore.pods: the PodMetrics handle stored under each key
    loops,         \* the handles whose refresh loop runs
    stoppedAgain,  \* the handles that got StopRefreshLoop with their loop stopped
    podRet,        \* what the last PodUpdateOrAddIfNotExist returned
    delPc,         \* position and handle of each concurrent PodDelete caller
    addPc,         \* position of each concurrent PodUpdateOrAddIfNotExist caller
    podsCache,     \* LRUPicker.podsCache: usages per pod
    pickRet,       \* what the last Pick returned
    pickPc,        \* position of each concurrent LRUPicker.Pick caller
    picked,        \* history: how often concurrent Pick calls returned each pod
    ctxDone        \* the ctx of the running Schedule call was cancelled before the call

vars == <<pods, sessions, schedPc, schedReq, PodsSnapshot, filterOut, schedRet,
          now, parentCtxDone, nextTick, sweepPc, sweepNow, sweepKeys, sweepKey,
          lastSet, pool, models, cluster, submitted, recreated, renamed, modelRet,
          mu, lockPc, poolGetRet, podHandle, loops, stoppedAgain, podRet, delPc,
          addPc, podsCache, pickRet, pickPc, picked, ctxDone>>

schedVars == <<schedPc, ctxDone, schedReq, PodsSnapshot, filterOut, schedRet>>
sweepVars == <<now, parentCtxDone, nextTick, sweepPc, sweepNow, sweepKeys, sweepKey>>
historyVars == <<submitted, recreated, renamed>>
modelVars == <<pool, models, cluster, historyVars, modelRet>>
lockVars == <<mu, lockPc, poolGetRet>>
handleVars == <<podHandle, loops, stoppedAgain, podRet>>
podProcVars == <<delPc, addPc>>
pickerVars == <<podsCache, pickRet, pickPc, picked>>
procVars == <<lockVars, podProcVars, pickerVars>>

(***************************************************************************)
(* Values                                                                  *)
(***************************************************************************)
PodKeys == {"default/p1", "default/p2"}
SessionIDs == {"s1", "s2"}
Adapters == {"a1", "a2"}

\* Largest queue depth a pod reports in the model.
MaxQueueDepth == 7
\* Largest KV-cache utilization (hundredths) a pod reports in the model.
MaxKVCacheUtilization == 90

Address(k) ==
    CASE k = "default/p1" -> "10.0.0.1:8000"
      [] k = "default/p2" -> "10.0.0.2:8000"
      [] OTHER -> "10.0.0.3:8000"

\* The pairs (ActiveLoRAAdapters, MaxLoRASlots) a pod reports.
LoRAStates ==
    { [ActiveLoRAAdapters |-> {}, MaxLoRASlots |-> 1],
      [ActiveLoRAAdapters |-> {"a1"}, MaxLoRASlots |-> 1],
      [ActiveLoRAAdapters |-> {"a2"}, MaxLoRASlots |-> 1] }

QueueDepths == {1, 3, MaxQueueDepth}
KVCacheUtilizations == {50, MaxKVCacheUtilization}

\* Metrics a pod can report.
Metrics ==
    { [QueueDepth |-> q, KVCacheUtilization |-> u,
       ActiveLoRAAdapters |-> l.ActiveLoRAAdapters, MaxLoRASlots |-> l.MaxLoRASlots] :
          q \in QueueDepths, u \in KVCacheUtilizations, l \in LoRAStates }

\* Metrics of the pods that come and go while a Schedule call runs.
ChurnMetrics ==
    { m \in Metrics : /\ m.ActiveLoRAAdapters = {}
                      /\ \/ m.QueueDepth = 1 /\ m.KVCacheUtilization = 50
                         \/ m.QueueDepth = MaxQueueDepth
                            /\ m.KVCacheUtilization = MaxKVCacheUtilization }

\* Metrics of a pod the reconciler adds, before the first refresh.
FreshMetrics == { m \in ChurnMetrics : m.QueueDepth = 1 }

PodMetrics(k, m) ==
    [NamespacedName |-> k, Address |-> Address(k), QueueDepth |-> m.QueueDepth,
     KVCacheUtilization |-> m.KVCacheUtilization,
     ActiveLoRAAdapters |-> m.ActiveLoRAAdapters, MaxLoRASlots |-> m.MaxLoRASlots]

LLMRequests ==
    [Model : {"base", "a1"}, SessionID : {"", "s1"}, Critical : BOOLEAN]

NoRequest == [Model |-> "", SessionID |-> "", Critical |-> FALSE]

\* An error is the chain of its layers, outermost first; nil is the empty chain.
NilErr == <<>>
InferencePoolResourceExhausted == "InferencePoolResourceExhausted"

Range(s) == {s[i] : i \in 1..Len(s)}

\* The sequences that list the elements of the set S once each.
Orderings(S) ==
    { s \in [1..Cardinality(S) -> S] : \A i, j \in 1..Cardinality(S) : s[i] = s[j] => i = j }

(***************************************************************************)
(* Configuration (LoadConfig defaults)                                     *)
(***************************************************************************)
defaultKVCacheThreshold == 80
defaultQueueThresholdCritical == 5

\* Datastore constants, in ticks of 15 minutes.
sessionKeepAliveTime == 4
sessionKeepAliveCheckFrequency == 1

\* The clock stops at MaxTime.
MaxTime == 7

(***************************************************************************)
(* Filters.  A filter returns [pods, err, ran]: the pods kept, the error,  *)
(* and the names of the filters that ran (kept to tell which leaves a tree *)
(* reached).                                                               *)
(***************************************************************************)
Min(S) == CHOOSE x \in S : \A y \in S : x <= y

queueThresholdPredicate(pod) == pod.QueueDepth <= defaultQueueThresholdCritical

kvCacheThresholdPredicate(pod) == pod.KVCacheUtilization <= defaultKVCacheThreshold

hasCapacityPredicate(pod) ==
    queueThresholdPredicate(pod) /\ kvCacheThresholdPredicate(pod)

\* The request names a LoRA adapter when its model is one.
loRAAffinityPredicate(req, pod) ==
    \/ req.Model \notin Adapters
    \/ req.Model \in pod.ActiveLoRAAdapters
    \/ Cardinality(pod.ActiveLoRAAdapters) < pod.MaxLoRASlots

\* The filter function of dropRequestFilter.
dropRequest(req, podList) ==
    [pods |-> <<>>, err |-> <<InferencePoolResourceExhausted>>]

basicFilter(name, req, podList) ==
    CASE name = "low queue" ->
           [pods |-> SelectSeq(podList, queueThresholdPredicate), err |-> NilErr]
      [] name = "has capacity for sheddable requests" ->
           [pods |-> SelectSeq(podList, hasCapacityPredicate), err |-> NilErr]
      [] name = "least queue" ->
           [pods |-> SelectSeq(podList, LAMBDA p :
                        p.QueueDepth = Min({podList[i].QueueDepth : i \in 1..Len(podList)})),
            err |-> NilErr]
      [] name = "least KV cache" ->
           [pods |-> SelectSeq(podList, LAMBDA p :
                        p.KVCacheUtilization =
                            Min({podList[i].KVCacheUtilization : i \in 1..Len(podList)})),
            err |-> NilErr]
      [] name = "lora affinity" ->
           [pods |-> SelectSeq(podList, LAMBDA p : loRAAffinityPredicate(req, p)), err |-> NilErr]
      [] name = "drop request" -> dropRequest(req, podList)

\* A node of a decision tree; a child is <<>> (none) or <<node>>.
Node(current, onSuccess, onFailure, onSuccessOrFailure) ==
    [current |-> current, nextOnSuccess |-> onSuccess, nextOnFailure |-> onFailure,
     nextOnSuccessOrFailure |-> onSuccessOrFailure]

Leaf(current) == Node(current, <<>>, <<>>, <<>>)

RECURSIVE decisionTreeFilter(_, _, _)
decisionTreeFilter(node, req, podList) ==
    LET out == basicFilter(node.current, req, podList)
        success == out.err = NilErr /\ Len(out.pods) > 0
        next == IF success /\ Len(node.nextOnSuccess) > 0 THEN node.nextOnSuccess
                ELSE IF ~success /\ Len(node.nextOnFailure) > 0 THEN node.nextOnFailure
                ELSE node.nextOnSuccessOrFailure
    IN  IF Len(next) = 0
        THEN [pods |-> out.pods, err |-> out.err, ran |-> {node.current}]
        ELSE LET rest == decisionTreeFilter(next[1], req,
                                            IF success THEN out.pods ELSE podList)
             IN  [pods |-> rest.pods, err |-> rest.err,
                  ran |-> rest.ran \cup {node.current}]

leastKVCacheNode == Leaf("least KV cache")

\* lowLatencyFilter without its nextOnFailure branch.
lowLatencyFilterNoFailureBranch ==
    Node("low queue",
         <<Node("lora affinity", <<>>, <<>>,
                <<Node("least queue", <<>>, <<>>, <<leastKVCacheNode>>)>>)>>,
         <<>>,
         <<>>)

lowLatencyFilter ==
    Node("low queue",
         <<Node("lora affinity", <<>>, <<>>,
                <<Node("least queue", <<>>, <<>>, <<leastKVCacheNode>>)>>)>>,
         <<Node("least queue", <<>>, <<>>,
                <<Node("lora affinity", <<>>, <<>>, <<leastKVCacheNode>>)>>)>>,
         <<>>)

dropRequestFilter == Leaf("drop request")

\* sheddableRequestFilter with nextOnSuccess and nextOnFailure exchanged.
sheddableRequestFilterSwapped ==
    Node("has capacity for sheddable requests",
         <<dropRequestFilter>>, <<lowLatencyFilter>>, <<>>)

sheddableRequestFilter ==
    Node("has capacity for sheddable requests",
         <<lowLatencyFilter>>, <<dropRequestFilter>>, <<>>)

NoFilterOut == [pods |-> <<>>, err |-> NilErr, ran |-> {}]

(***************************************************************************)
(* Datastore: pods and sessions                                            *)
(***************************************************************************)
NilPod == ""
EmptyMap == [x \in {} |-> NilPod]

\* sync.Map.Store
Store(m, k, v) == [x \in DOMAIN m \cup {k} |-> IF x = k THEN v ELSE m[x]]

\* sync.Map.Delete
Delete(m, k) == [x \in DOMAIN m \ {k} |-> m[x]]

\* The map iterated by one Range, taken as one atomic read; the order of the
\* iteration is any.
PodGetAll == Orderings({pods[k] : k \in DOMAIN pods})

GetPodForSession(sessionID) ==
    IF sessionID \in DOMAIN sessions THEN sessions[sessionID].pod ELSE NilPod

\* The history a SetPodForSession call leaves: its pod, and whether it found
\* the session mapped to another pod.
SetRecord(sessionID, pod) ==
    [pod |-> pod, over |-> GetPodForSession(sessionID) \notin {NilPod, pod}]

\* SetPodForSession with LoadOrStore in place of Store: the first writer wins.
SetPodForSessionKeepFirst(sessionID, pod) ==
    /\ sessions' = IF sessionID \in DOMAIN sessions
                   THEN sessions
                   ELSE Store(sessions, sessionID, [pod |-> pod, lru |-> now])
    /\ lastSet' = [lastSet EXCEPT ![sessionID] = SetRecord(sessionID, pod)]
    /\ UNCHANGED <<procVars, handleVars, pods, schedVars, sweepVars, modelVars>>

SetPodForSession(sessionID, pod) ==
    /\ sessions' = Store(sessions, sessionID, [pod |-> pod, lru |-> now])
    /\ lastSet' = [lastSet EXCEPT ![sessionID] = SetRecord(sessionID, pod)]
    /\ UNCHANGED <<procVars, handleVars, pods, schedVars, sweepVars, modelVars>>

\* m: the metrics the handle made by the PodMetricsFactory reports.
\* A PodMetrics handle: the key it was made for and a serial number.
MaxHandles == 2
NoHandle == <<>>
FreeHandles(k) == { <<k, g>> : g \in 1..MaxHandles } \ (loops \cup stoppedAgain)
NewPodMetrics(k) == CHOOSE h \in FreeHandles(k) : \A other \in FreeHandles(k) : h[2] <= other[2]

\* StopRefreshLoop(h): what it makes of loops and stoppedAgain.
StopRefreshLoop(h) ==
    [loops |-> loops \ {h},
     stoppedAgain |-> IF h \in loops THEN stoppedAgain ELSE stoppedAgain \cup {h}]

\* PodUpdateOrAddIfNotExist that makes a handle on every call.
PodUpdateOrAddAlways(k, m) ==
    /\ FreeHandles(k) # {}
    /\ pods' = Store(pods, k, PodMetrics(k, m))
    /\ podHandle' = Store(podHandle, k, NewPodMetrics(k))
    /\ loops' = loops \cup {NewPodMetrics(k)}
    /\ podRet' = (k \in DOMAIN pods)
    /\ UNCHANGED <<procVars, stoppedAgain, sessions, lastSet, schedVars, sweepVars,
                   modelVars>>

\* m: the metrics the handle made by the PodMetricsFactory reports.
PodUpdateOrAddIfNotExist(k, m) ==
    /\ IF k \in DOMAIN pods
       THEN UNCHANGED <<pods, podHandle, loops>>
       ELSE /\ FreeHandles(k) # {}
            /\ pods' = Store(pods, k, PodMetrics(k, m))
            /\ podHandle' = Store(podHandle, k, NewPodMetrics(k))
            /\ loops' = loops \cup {NewPodMetrics(k)}
    /\ podRet' = (k \in DOMAIN pods)
    /\ UNCHANGED <<procVars, stoppedAgain, sessions, lastSet, schedVars, sweepVars,
                   modelVars>>

\* The whole call in one step: LoadAndDelete, then StopRefreshLoop.
PodDelete(k) ==
    /\ pods' = Delete(pods, k)
    /\ podHandle' = Delete(podHandle, k)
    /\ IF k \in DOMAIN pods
       THEN /\ loops' = StopRefreshLoop(podHandle[k]).loops
            /\ stoppedAgain' = StopRefreshLoop(podHandle[k]).stoppedAgain
       ELSE UNCHANGED <<loops, stoppedAgain>>
    /\ UNCHANGED <<procVars, podRet, sessions, lastSet, schedVars, sweepVars, modelVars>>

\* The call of one of several concurrent callers, in its two steps.
Deleters == {"d1", "d2"}

\* PodDelete with Load in place of LoadAndDelete, the Delete left to the end.
PodDeleteLoad(d, k) ==
    /\ delPc[d].pc = "idle"
    /\ IF k \in DOMAIN pods
       THEN delPc' = [delPc EXCEPT ![d] = [pc |-> "StopRefreshLoop", v |-> podHandle[k]]]
       ELSE UNCHANGED delPc
    /\ UNCHANGED <<lockVars, pickerVars, addPc, handleVars, pods, sessions, lastSet, schedVars,
                   sweepVars, modelVars>>

\* v, ok := ds.pods.LoadAndDelete(namespacedName)
PodDeleteLoadAndDelete(d, k) ==
    /\ delPc[d].pc = "idle"
    /\ pods' = Delete(pods, k)
    /\ podHandle' = Delete(podHandle, k)
    /\ IF k \in DOMAIN pods
       THEN delPc' = [delPc EXCEPT ![d] = [pc |-> "StopRefreshLoop", v |-> podHandle[k]]]
       ELSE UNCHANGED delPc
    /\ UNCHANGED <<lockVars, pickerVars, addPc, loops, stoppedAgain, podRet, sessions, lastSet,
                   schedVars, sweepVars, modelVars>>

\* if ok { pmr.StopRefreshLoop() }
PodDeleteStop(d) ==
    /\ delPc[d].pc = "StopRefreshLoop"
    /\ loops' = StopRefreshLoop(delPc[d].v).loops
    /\ stoppedAgain' = StopRefreshLoop(delPc[d].v).stoppedAgain
    /\ delPc' = [delPc EXCEPT ![d] = [pc |-> "idle", v |-> NoHandle]]
    /\ UNCHANGED <<lockVars, pickerVars, addPc, pods, podHandle, podRet, sessions, lastSet,
                   schedVars, sweepVars, modelVars>>

\* PodUpdateOrAddIfNotExist of one of several concurrent callers, statement
\* by statement.  namespacedName: the key; m: the metrics the new handle
\* reports; pm: the handle made.
Adders == {"a1", "a2"}
AdderIdle == [pc |-> "idle", namespacedName |-> "", m |-> <<>>, pm |-> NoHandle]

\* existing, ok := ds.pods.Load(namespacedName); with ok the call goes on to
\* UpdatePod on the handle it loaded and returns true.
PodAddLoad(a, k, m) ==
    /\ addPc[a].pc = "idle"
    /\ IF k \in DOMAIN pods
       THEN /\ podRet' = TRUE
            /\ UNCHANGED addPc
       ELSE /\ addPc' = [addPc EXCEPT ![a] = [pc |-> "NewPodMetrics", namespacedName |-> k,
                                              m |-> m, pm |-> NoHandle]]
            /\ UNCHANGED podRet
    /\ UNCHANGED <<lockVars, pickerVars, delPc, pods, podHandle, loops, stoppedAgain, sessions,
                   lastSet, schedVars, sweepVars, modelVars>>

\* pm = ds.pmf.NewPodMetrics(ds.parentCtx, pod, ds): the refresh loop starts.
PodAddNewPodMetrics(a) ==
    /\ addPc[a].pc = "NewPodMetrics"
    /\ FreeHandles(addPc[a].namespacedName) # {}
    /\ loops' = loops \cup {NewPodMetrics(addPc[a].namespacedName)}
    /\ addPc' = [addPc EXCEPT ![a].pc = "Store",
                              ![a].pm = NewPodMetrics(addPc[a].namespacedName)]
    /\ UNCHANGED <<lockVars, pickerVars, delPc, pods, podHandle, stoppedAgain, podRet, sessions,
                   lastSet, schedVars, sweepVars, modelVars>>

\* ds.pods.Store(namespacedName, pm); pm.UpdatePod(pod); return ok
PodAddStore(a) ==
    /\ addPc[a].pc = "Store"
    /\ pods' = Store(pods, addPc[a].namespacedName,
                     PodMetrics(addPc[a].namespacedName, addPc[a].m))
    /\ podHandle' = Store(podHandle, addPc[a].namespacedName, addPc[a].pm)
    /\ podRet' = FALSE
    /\ addPc' = [addPc EXCEPT ![a] = AdderIdle]
    /\ UNCHANGED <<lockVars, pickerVars, delPc, loops, stoppedAgain, sessions, lastSet,
                   schedVars, sweepVars, modelVars>>

\* Pods of the pool's namespace and one pod of another namespace with the
\* name of one of them.
ResyncPodKeys == PodKeys \cup {"other/p1"}
PodName(k) == IF k = "default/p2" THEN "p2" ELSE "p1"

\* What ctrlClient.List can return for the pool: pods of the pool's namespace,
\* each ready or not.
PodLists == UNION { [keys -> BOOLEAN] : keys \in SUBSET PodKeys }

\* The whole call in one step; m: the metrics the new handles report.
PodResyncAll(podList, listFails, m) ==
    /\ IF listFails
       THEN UNCHANGED <<pods, podHandle, loops, stoppedAgain>>
       ELSE LET ready == { k \in DOMAIN podList : podList[k] }
                activePods == { PodName(k) : k \in ready }
                added == ready \ DOMAIN pods
                kept == { k \in DOMAIN pods \cup ready : PodName(k) \in activePods }
                removed == { podHandle[k] : k \in DOMAIN pods \ kept }
            IN  /\ \A k \in added : FreeHandles(k) # {}
                /\ pods' = [k \in kept |-> IF k \in DOMAIN pods THEN pods[k]
                                                                ELSE PodMetrics(k, m)]
                /\ podHandle' = [k \in kept |-> IF k \in DOMAIN pods THEN podHandle[k]
                                                                     ELSE NewPodMetrics(k)]
                /\ loops' = (loops \cup { NewPodMetrics(k) : k \in added }) \ removed
                /\ stoppedAgain' = stoppedAgain \cup (removed \ loops)
    /\ UNCHANGED <<procVars, podRet, sessions, lastSet, schedVars, sweepVars, modelVars>>

\* The refresh loop of a stored pod writes the metrics it scraped.
RefreshMetrics(k, m) ==
    /\ k \in DOMAIN pods
    /\ podHandle[k] \in loops
    /\ pods' = Store(pods, k, PodMetrics(k, m))
    /\ UNCHANGED <<procVars, handleVars, sessions, lastSet, schedVars, sweepVars, modelVars>>

(***************************************************************************)
(* Scorers.  A scorer returns [scores, err]; scores is a sequence of       *)
(* [Pod, Score].                                                           *)
(***************************************************************************)
sessionAffinityWeight == 1
kvCacheAwareWeight == 5

\* SessionAffinityScoreTargets that returns a score for the session's pod only.
SessionAffinityScoreTargetsMatchOnly(req, podList) ==
    LET selectedPodFullName ==
            IF req.SessionID # "" THEN GetPodForSession(req.SessionID) ELSE ""
        match == SelectSeq(podList, LAMBDA p : p.NamespacedName = selectedPodFullName)
    IN  [scores |-> [i \in 1..Len(match) |-> [Pod |-> match[i], Score |-> 100]],
         err |-> NilErr]

SessionAffinityScoreTargets(req, podList) ==
    LET selectedPodFullName ==
            IF req.SessionID # "" THEN GetPodForSession(req.SessionID) ELSE ""
    IN  [scores |-> [i \in 1..Len(podList) |->
                        [Pod |-> podList[i],
                         Score |-> IF selectedPodFullName = podList[i].NamespacedName
                                   THEN 100 ELSE 0]],
         err |-> NilErr]

\* What kvCacheIndexer.GetPodScores can answer: a failure, or scores for some
\* of the pods' addresses, with or without an entry for a name the scorer did
\* not ask about.
UnknownName == "10.9.9.9:8000"
IndexerScores == {10, 90}
IndexerAnswers ==
    {[failed |-> TRUE, scores |-> EmptyMap]} \cup
    { [failed |-> FALSE, scores |-> f] :
        f \in UNION { [S -> IndexerScores] : S \in SUBSET {Address(k) : k \in PodKeys} } }
    \cup
    { [failed |-> FALSE, scores |-> Store(f, UnknownName, 90)] :
        f \in UNION { [S -> IndexerScores] : S \in SUBSET {Address(k) : k \in PodKeys} } }

RECURSIVE SetToSeq(_)
SetToSeq(S) ==
    IF S = {} THEN <<>>
    ELSE LET x == CHOOSE y \in S : TRUE IN <<x>> \o SetToSeq(S \ {x})

\* The answer's entries in the order the indexer lists them.
AnswerList(answer) ==
    LET names == SetToSeq(DOMAIN answer.scores)
    IN  [i \in 1..Len(names) |-> [Name |-> names[i], Score |-> answer.scores[names[i]]]]

\* KVCacheAwareScoreTargets that returns every input pod, with score 0 for a
\* pod the indexer did not score.
KVCacheAwareScoreTargetsAllPods(req, podList, answer) ==
    IF Len(podList) = 0 THEN [scores |-> <<>>, err |-> NilErr]
    ELSE IF answer.failed
    THEN [scores |-> <<>>, err |-> <<"fmt.wrapError", "indexer error">>]
    ELSE [scores |-> [i \in 1..Len(podList) |->
                         [Pod |-> podList[i],
                          Score |-> IF podList[i].Address \in DOMAIN answer.scores
                                    THEN answer.scores[podList[i].Address] ELSE 0]],
          err |-> NilErr]

KVCacheAwareScoreTargets(req, podList, answer) ==
    LET podIdentifiers == {podList[i].Address : i \in 1..Len(podList)}
        \* podIdentifierToPod: the last pod of the list with the address
        ToPod(a) == podList[CHOOSE i \in 1..Len(podList) :
                               /\ podList[i].Address = a
                               /\ \A j \in 1..Len(podList) :
                                      podList[j].Address = a => j <= i]
        listed == AnswerList(answer)
        known == SelectSeq(listed, LAMBDA e : e.Name \in podIdentifiers)
    IN  IF podIdentifiers = {} THEN [scores |-> <<>>, err |-> NilErr]
        ELSE IF answer.failed
        THEN [scores |-> <<>>, err |-> <<"fmt.wrapError", "indexer error">>]
        ELSE [scores |-> [i \in 1..Len(known) |->
                             [Pod |-> ToPod(known[i].Name), Score |-> known[i].Score]],
              err |-> NilErr]

\* The score a scorer's output gives a pod; a pod it left out has none.
ScoreOf(scores, pod) ==
    LET hits == {i \in 1..Len(scores) : scores[i].Pod.NamespacedName = pod.NamespacedName}
    IN  IF hits = {} THEN 0 ELSE scores[CHOOSE i \in hits : TRUE].Score

\* ScorerManager.ScoreTargets: the weighted sum per pod, and the pods that have
\* the largest; the picker takes one of them.
CombinedScore(aff, kv, pod) ==
    sessionAffinityWeight * ScoreOf(aff.scores, pod) + kvCacheAwareWeight * ScoreOf(kv.scores, pod)

ScorerManagerScoreTargets(req, podList, answer) ==
    LET aff == SessionAffinityScoreTargets(req, podList)
        kv == KVCacheAwareScoreTargets(req, podList, answer)
        best == {p \in Range(podList) :
                    \A q \in Range(podList) :
                        CombinedScore(aff, kv, q) <= CombinedScore(aff, kv, p)}
    IN  IF aff.err # NilErr THEN [winners |-> {}, err |-> aff.err]
        ELSE IF kv.err # NilErr THEN [winners |-> {}, err |-> kv.err]
        ELSE [winners |-> best, err |-> NilErr]

\* Filter.Filter as Schedule calls it: a filter tests at its entry whether the
\* call's context is cancelled.
Cancelled == "Cancelled"

Filter(done, filter, req, podList) ==
    IF done THEN [pods |-> <<>>, err |-> <<Cancelled>>, ran |-> {}]
    ELSE decisionTreeFilter(filter, req, podList)

(***************************************************************************)
(* Pickers.  A candidate is the NamespacedName of a scored pod.  pickRet   *)
(* is the last Pick call: the candidates it was given, and the target pod  *)
(* it returned or its panic.                                               *)
(***************************************************************************)
NoPick == [scoredPods |-> <<>>, TargetPod |-> <<>>, panic |-> FALSE]
Result(scoredPods, pod) == [scoredPods |-> scoredPods, TargetPod |-> <<pod>>, panic |-> FALSE]
Panic(scoredPods) == [scoredPods |-> scoredPods, TargetPod |-> <<>>, panic |-> TRUE]

\* The candidate lists given to the pickers.
CandidateLists == { l \in Orderings(PodKeys) \cup UNION { Orderings({k}) : k \in PodKeys } :
                      Len(l) >= 1 }

\* RandomPicker.Pick: rand.Intn(len(pods)) panics when len(pods) = 0.
RandomPick(podList) ==
    IF Len(podList) = 0 THEN {Panic(podList)}
    ELSE { Result(podList, podList[i]) : i \in 1..Len(podList) }

RandomPickerPick(podList) ==
    /\ ~pickRet.panic
    /\ pickRet' \in RandomPick(podList)
    /\ UNCHANGED <<lockVars, podProcVars, podsCache, pickPc, picked, handleVars, pods, sessions,
                   lastSet, schedVars, sweepVars, modelVars>>

\* minUsages := 100000
minUsagesInitial == 100000

\* The loop of LRUPicker.Pick from scoredPods[i] on, with the minimum and the
\* pods found so far.
RECURSIVE LeastUsed(_, _, _, _, _)
LeastUsed(cache, scoredPods, i, minUsages, bestPods) ==
    IF i > Len(scoredPods) THEN bestPods
    ELSE LET podUsages == IF scoredPods[i] \in DOMAIN cache THEN cache[scoredPods[i]] ELSE 0
         IN  IF podUsages = minUsages
             THEN LeastUsed(cache, scoredPods, i + 1, minUsages, Append(bestPods, scoredPods[i]))
             ELSE IF podUsages < minUsages
             THEN LeastUsed(cache, scoredPods, i + 1, podUsages, <<scoredPods[i]>>)
             ELSE LeastUsed(cache, scoredPods, i + 1, minUsages, bestPods)

\* podsCache with the candidates it did not have, at 0 usages.
WithCandidates(cache, scoredPods) ==
    [k \in DOMAIN cache \cup Range(scoredPods) |-> IF k \in DOMAIN cache THEN cache[k] ELSE 0]

\* LRUPickerPick that takes the first candidate, whatever its usages.
LRUPickerPickFirst(scoredPods) ==
    /\ ~pickRet.panic
    /\ LET cache == WithCandidates(podsCache, scoredPods)
       IN  /\ podsCache' = [cache EXCEPT ![scoredPods[1]] = @ + 1]
           /\ pickRet' = Result(scoredPods, scoredPods[1])
    /\ UNCHANGED <<lockVars, podProcVars, pickPc, picked, handleVars, pods, sessions, lastSet,
                   schedVars, sweepVars, modelVars>>

LRUPickerPick(scoredPods) ==
    /\ ~pickRet.panic
    /\ LET cache == WithCandidates(podsCache, scoredPods)
           bestPods == LeastUsed(podsCache, scoredPods, 1, minUsagesInitial, <<>>)
       IN  IF Len(bestPods) = 1
           THEN /\ podsCache' = [cache EXCEPT ![bestPods[1]] = @ + 1]
                /\ pickRet' = Result(scoredPods, bestPods[1])
           ELSE \E res \in RandomPick(bestPods) :
                    /\ pickRet' = [res EXCEPT !.scoredPods = scoredPods]
                    /\ IF res.panic THEN podsCache' = cache
                       ELSE podsCache' = [cache EXCEPT ![res.TargetPod[1]] = @ + 1]
    /\ UNCHANGED <<lockVars, podProcVars, pickPc, picked, handleVars, pods, sessions, lastSet,
                   schedVars, sweepVars, modelVars>>

(***************************************************************************)
(* LRUPicker.Pick of one of several concurrent callers.  podsCache is a    *)
(* plain map that the callers read and write without a lock: the loop is   *)
(* one step, the increment p.podsCache[k] = p.podsCache[k] + 1 is a read   *)
(* and a write, and the runtime may end the process with "concurrent map   *)
(* writes" while two callers are at the map.                               *)
(***************************************************************************)
Pickers == {"g1", "g2"}
MaxPicks == 3
PickerIdle == [pc |-> "idle", TargetPod |-> <<>>, podUsages |-> 0]

\* The process has ended: a panic or a fatal error of the runtime.
Thrown == \E g \in Pickers : pickPc[g].pc = "fatal"

RECURSIVE SumOf(_, _)
SumOf(f, S) == IF S = {} THEN 0
               ELSE LET k == CHOOSE x \in S : TRUE IN f[k] + SumOf(f, S \ {k})

\* The Pick calls begun so far.
Begun == SumOf(picked, PodKeys) + Cardinality({ g \in Pickers : pickPc[g].pc # "idle" })

\* The loop over scoredPods and the choice among bestPods.
LRUPickScan(g, scoredPods) ==
    /\ ~Thrown
    /\ pickPc[g].pc = "idle"
    /\ Begun < MaxPicks
    /\ LET bestPods == LeastUsed(podsCache, scoredPods, 1, minUsagesInitial, <<>>)
       IN  IF Len(bestPods) = 1
           THEN pickPc' = [pickPc EXCEPT ![g] = [pc |-> "read", TargetPod |-> <<bestPods[1]>>,
                                                 podUsages |-> 0]]
           ELSE \E res \in RandomPick(bestPods) :
                    pickPc' = [pickPc EXCEPT ![g] = [pc |-> IF res.panic THEN "fatal" ELSE "read",
                                                     TargetPod |-> res.TargetPod,
                                                     podUsages |-> 0]]
    /\ podsCache' = WithCandidates(podsCache, scoredPods)
    /\ UNCHANGED <<lockVars, podProcVars, pickRet, picked, handleVars, pods, sessions, lastSet,
                   schedVars, sweepVars, modelVars>>

\* the right side of the increment: p.podsCache[...] + 1
LRUPickRead(g) ==
    /\ ~Thrown
    /\ pickPc[g].pc = "read"
    /\ pickPc' = [pickPc EXCEPT ![g].pc = "write",
                                ![g].podUsages = podsCache[pickPc[g].TargetPod[1]]]
    /\ UNCHANGED <<lockVars, podProcVars, podsCache, pickRet, picked, handleVars, pods,
                   sessions, lastSet, schedVars, sweepVars, modelVars>>

\* the left side of the increment, and the return of the target pod
LRUPickWrite(g) ==
    /\ ~Thrown
    /\ pickPc[g].pc = "write"
    /\ podsCache' = [podsCache EXCEPT ![pickPc[g].TargetPod[1]] = pickPc[g].podUsages + 1]
    /\ picked' = [picked EXCEPT ![pickPc[g].TargetPod[1]] = @ + 1]
    /\ pickPc' = [pickPc EXCEPT ![g] = PickerIdle]
    /\ UNCHANGED <<lockVars, podProcVars, pickRet, handleVars, pods, sessions, lastSet,
                   schedVars, sweepVars, modelVars>>

\* The runtime finds two callers at the map and throws.
LRUPickThrow(g) ==
    /\ ~Thrown
    /\ pickPc[g].pc \in {"read", "write"}
    /\ \E other \in Pickers \ {g} : pickPc[other].pc \in {"read", "write"}
    /\ pickPc' = [pickPc EXCEPT ![g].pc = "fatal"]
    /\ UNCHANGED <<lockVars, podProcVars, podsCache, pickRet, picked, handleVars, pods,
                   sessions, lastSet, schedVars, sweepVars, modelVars>>

(***************************************************************************)
(* Scheduler.Schedule, one action per step; targetPod is <<>> (nil) or     *)
(* <<pod>>.                                                                *)
(***************************************************************************)
NoRet == [targetPod |-> <<>>, err |-> NilErr]

Errorf(err) == <<"fmt.wrapError">> \o err

ScheduleSnapshot(done, req, snapshot) ==
    /\ schedPc = "idle"
    /\ ctxDone' = done
    /\ snapshot \in PodGetAll
    /\ schedReq' = req
    /\ PodsSnapshot' = snapshot
    /\ schedPc' = "filter"
    /\ UNCHANGED <<procVars, handleVars, pods, sessions, lastSet, filterOut, schedRet, sweepVars, modelVars>>

\* ScheduleFilter applied to a fresh PodGetAll instead of sCtx.PodsSnapshot.
ScheduleFilterOnDatastore ==
    /\ schedPc = "filter"
    /\ \E fresh \in PodGetAll :
         LET filter == IF schedReq.Critical THEN lowLatencyFilter ELSE sheddableRequestFilter
             out == Filter(ctxDone, filter, schedReq, fresh)
         IN  /\ filterOut' = out
             /\ IF out.err # NilErr \/ Len(out.pods) = 0
                THEN /\ schedRet' = [targetPod |-> <<>>, err |-> Errorf(out.err)]
                     /\ schedPc' = "done"
                ELSE /\ schedRet' = schedRet
                     /\ schedPc' = "score"
    /\ UNCHANGED <<procVars, handleVars, pods, sessions, lastSet, ctxDone, schedReq,
                   PodsSnapshot, sweepVars, modelVars>>

ScheduleFilter ==
    /\ schedPc = "filter"
    /\ LET filter == IF schedReq.Critical THEN lowLatencyFilter ELSE sheddableRequestFilter
           out == Filter(ctxDone, filter, schedReq, PodsSnapshot)
       IN  /\ filterOut' = out
           /\ IF out.err # NilErr \/ Len(out.pods) = 0
              THEN /\ schedRet' = [targetPod |-> <<>>, err |-> Errorf(out.err)]
                   /\ schedPc' = "done"
              ELSE /\ schedRet' = schedRet
                   /\ schedPc' = "score"
    /\ UNCHANGED <<procVars, handleVars, pods, sessions, lastSet, ctxDone, schedReq,
                   PodsSnapshot, sweepVars, modelVars>>

\* ScheduleScore applied to the pods the filter kept as the datastore holds
\* them now.
ScheduleScoreOnDatastore(answer) ==
    /\ schedPc = "score"
    /\ LET live == SelectSeq(filterOut.pods, LAMBDA p : p.NamespacedName \in DOMAIN pods)
           fresh == [i \in 1..Len(live) |-> pods[live[i].NamespacedName]]
           out == ScorerManagerScoreTargets(schedReq, fresh, answer)
       IN  IF out.err # NilErr
           THEN schedRet' = [targetPod |-> <<>>, err |-> Errorf(out.err)]
           ELSE \E selectedPod \in out.winners :
                    schedRet' = [targetPod |-> <<selectedPod>>, err |-> NilErr]
    /\ schedPc' = "done"
    /\ UNCHANGED <<procVars, handleVars, pods, sessions, lastSet, ctxDone, schedReq,
                   PodsSnapshot, filterOut,
                   sweepVars, modelVars>>

ScheduleScore(answer) ==
    /\ schedPc = "score"
    /\ LET out == ScorerManagerScoreTargets(schedReq, filterOut.pods, answer)
       IN  IF out.err # NilErr
           THEN schedRet' = [targetPod |-> <<>>, err |-> Errorf(out.err)]
           ELSE \E selectedPod \in out.winners :
                    schedRet' = [targetPod |-> <<selectedPod>>, err |-> NilErr]
    /\ schedPc' = "done"
    /\ UNCHANGED <<procVars, handleVars, pods, sessions, lastSet, ctxDone, schedReq,
                   PodsSnapshot, filterOut,
                   sweepVars, modelVars>>

\* The caller has the result; the next call starts afresh.
ScheduleReturn ==
    /\ schedPc = "done"
    /\ schedPc' = "idle"
    /\ ctxDone' = FALSE
    /\ schedReq' = NoRequest
    /\ PodsSnapshot' = <<>>
    /\ filterOut' = NoFilterOut
    /\ schedRet' = NoRet
    /\ UNCHANGED <<procVars, handleVars, pods, sessions, lastSet, sweepVars, modelVars>>

(***************************************************************************)
(* Pool and model registry.  InferenceModel objects are records; a nil     *)
(* pointer is <<>> and a non-nil one is a one-element sequence.            *)
(***************************************************************************)
ModelNames == {"m", "n"}
PoolName == "pool"
Namespaces == {"ns1", "ns2"}

\* Largest creation timestamp of the objects given to ModelSetIfOlder.
MaxTimestamp == 3

InferenceModel(ns, name, modelName, ts, poolRef, deleted) ==
    [Namespace |-> ns, Name |-> name, ModelName |-> modelName,
     CreationTimestamp |-> ts, PoolRef |-> poolRef, Deleted |-> deleted]

\* Objects the reconciler hands to ModelSetIfOlder: three identities, any
\* model name and creation timestamp.
ObjectIDs == {<<"ns1", "a">>, <<"ns2", "a">>, <<"ns1", "b">>}
SubmittedModels ==
    { InferenceModel(id[1], id[2], modelName, ts, PoolName, FALSE) :
          id \in ObjectIDs, modelName \in ModelNames, ts \in 1..MaxTimestamp }

ID(infModel) == <<infModel.Namespace, infModel.Name>>

NilPool == <<>>
InferencePools == { [Namespace |-> ns, Name |-> PoolName] : ns \in Namespaces }

NilModel == <<>>
NoModelRet == [op |-> "", ok |-> FALSE, model |-> NilModel, err |-> NilErr]

\* What a call returns: ok is the bool, model the object of ModelDelete.
ModelRet(op, ok, err) == [NoModelRet EXCEPT !.op = op, !.ok = ok, !.err = err]

PoolSet(p) ==
    /\ pool' = <<p>>
    /\ UNCHANGED <<procVars, handleVars, pods, sessions, lastSet, schedVars, sweepVars, models, cluster,
                   historyVars, modelRet>>

PoolHasSynced == pool # NilPool

Clear ==
    /\ pool' = NilPool
    /\ models' = EmptyMap
    /\ pods' = EmptyMap
    /\ podHandle' = EmptyMap
    /\ UNCHANGED <<procVars, loops, stoppedAgain, podRet, sessions, lastSet, schedVars,
                   sweepVars, cluster, historyVars, modelRet>>

ModelGet(modelName) ==
    IF modelName \in DOMAIN models THEN <<models[modelName]>> ELSE <<>>

\* ModelSetIfOlder that stores the incoming object also when it returns false.
ModelSetIfOlderAlwaysStores(infModel) ==
    LET exists == infModel.ModelName \in DOMAIN models
        existing == models[infModel.ModelName]
        diffObj == infModel.Name # existing.Name \/ infModel.Namespace # existing.Namespace
    IN  /\ models' = Store(models, infModel.ModelName, infModel)
        /\ modelRet' = ModelRet("ModelSetIfOlder",
                                ~(exists /\ diffObj /\
                                  existing.CreationTimestamp < infModel.CreationTimestamp),
                                NilErr)
        /\ UNCHANGED <<procVars, handleVars, pods, sessions, lastSet, schedVars, sweepVars, pool, cluster>>

\* ModelSetIfOlder without the creation-timestamp test: the last writer wins.
ModelSetIfOlderNoTimestampTest(infModel) ==
    /\ models' = Store(models, infModel.ModelName, infModel)
    /\ modelRet' = ModelRet("ModelSetIfOlder", TRUE, NilErr)
    /\ UNCHANGED <<procVars, handleVars, pods, sessions, lastSet, schedVars, sweepVars, pool, cluster>>

ModelSetIfOlder(infModel) ==
    LET exists == infModel.ModelName \in DOMAIN models
        existing == models[infModel.ModelName]
        diffObj == infModel.Name # existing.Name \/ infModel.Namespace # existing.Namespace
    IN  /\ IF exists /\ diffObj /\
              existing.CreationTimestamp < infModel.CreationTimestamp
           THEN /\ models' = models
                /\ modelRet' = ModelRet("ModelSetIfOlder", FALSE, NilErr)
           ELSE /\ models' = Store(models, infModel.ModelName, infModel)
                /\ modelRet' = ModelRet("ModelSetIfOlder", TRUE, NilErr)
        /\ UNCHANGED <<procVars, handleVars, pods, sessions, lastSet, schedVars, sweepVars, pool, cluster>>

\* History of the objects given to ModelSetIfOlder.
Submit(infModel) ==
    LET known == ID(infModel) \in DOMAIN submitted
        last == submitted[ID(infModel)]
    IN  /\ submitted' = Store(submitted, ID(infModel), infModel)
        /\ recreated' = (recreated \/
                         (known /\ last.CreationTimestamp # infModel.CreationTimestamp))
        /\ renamed' = (renamed \/ (known /\ last.ModelName # infModel.ModelName))

\* The range over ds.models visits the entries in any order and stops at the
\* first entry of the object.
ModelDelete(namespacedName) ==
    LET found == { k \in DOMAIN models : ID(models[k]) = namespacedName }
    IN  /\ IF found = {}
           THEN /\ models' = models
                /\ modelRet' = [NoModelRet EXCEPT !.op = "ModelDelete"]
           ELSE \E k \in found :
                    /\ models' = Delete(models, models[k].ModelName)
                    /\ modelRet' = [NoModelRet EXCEPT !.op = "ModelDelete",
                                                      !.model = <<models[k]>>]
        /\ UNCHANGED <<procVars, handleVars, pods, sessions, lastSet, schedVars, sweepVars, pool, cluster,
                       historyVars>>

\* InferenceModel objects the API server can hold, each under its own name:
\* two namespaces, two pools, equal and different creation timestamps.
Catalogue ==
    { InferenceModel("ns1", "a", "m", 1, PoolName, FALSE),
      InferenceModel("ns2", "a", "m", 2, PoolName, FALSE),
      InferenceModel("ns1", "b", "m", 2, PoolName, FALSE),
      InferenceModel("ns1", "c", "m", 1, "other", FALSE),
      InferenceModel("ns2", "b", "m", 2, PoolName, FALSE),
      InferenceModel("ns1", "d", "n", 1, PoolName, FALSE) }

\* The API server: an object is created, marked for deletion, removed.
ClusterCreate(infModel) ==
    /\ \A o \in cluster : ID(o) # ID(infModel)
    /\ cluster' = cluster \cup {infModel}
    /\ UNCHANGED <<procVars, handleVars, pods, sessions, lastSet, schedVars, sweepVars, pool, models,
                   historyVars, modelRet>>

ClusterMarkDeleted(infModel) ==
    /\ infModel \in cluster
    /\ ~infModel.Deleted
    /\ cluster' = (cluster \ {infModel}) \cup {[infModel EXCEPT !.Deleted = TRUE]}
    /\ UNCHANGED <<procVars, handleVars, pods, sessions, lastSet, schedVars, sweepVars, pool, models,
                   historyVars, modelRet>>

ClusterRemove(infModel) ==
    /\ infModel \in cluster
    /\ cluster' = cluster \ {infModel}
    /\ UNCHANGED <<procVars, handleVars, pods, sessions, lastSet, schedVars, sweepVars, pool, models,
                   historyVars, modelRet>>

\* c.List(ctx, &models, MatchingFields{ModelNameIndexKey: modelName},
\*        InNamespace(ds.pool.Namespace))
List(modelName, namespace) ==
    { o \in cluster : o.ModelName = modelName /\ o.Namespace = namespace }

\* The loop of ModelResync over models.Items.
RECURSIVE oldestOf(_, _, _)
oldestOf(items, modelName, oldest) ==
    IF items = <<>>
    THEN oldest
    ELSE LET m == Head(items)
         IN  IF \/ m.ModelName # modelName
                \/ m.PoolRef # pool[1].Name
                \/ m.Deleted
             THEN oldestOf(Tail(items), modelName, oldest)
             ELSE IF oldest = <<>> \/ m.CreationTimestamp < oldest[1].CreationTimestamp
                  THEN oldestOf(Tail(items), modelName, <<m>>)
                  ELSE oldestOf(Tail(items), modelName, oldest)

\* ModelResync whose loop keeps the objects marked for deletion.
ModelResyncKeepsDeleted(modelName, listFails) ==
    /\ PoolHasSynced
    /\ IF listFails
       THEN /\ models' = models
            /\ modelRet' = ModelRet("ModelResync", FALSE, <<"fmt.wrapError", "list error">>)
       ELSE LET listed == { o \in List(modelName, pool[1].Namespace) :
                                o.PoolRef = pool[1].Name }
            IN  IF listed = {}
                THEN /\ models' = models
                     /\ modelRet' = ModelRet("ModelResync", FALSE, NilErr)
                ELSE \E oldest \in listed :
                        /\ \A o \in listed :
                               oldest.CreationTimestamp <= o.CreationTimestamp
                        /\ models' = Store(models, modelName, oldest)
                        /\ modelRet' = ModelRet("ModelResync", TRUE, NilErr)
    /\ UNCHANGED <<procVars, handleVars, pods, sessions, lastSet, schedVars, sweepVars, pool, cluster,
                   historyVars>>

\* A nil ds.pool makes the call panic: the step needs the pool.
ModelResync(modelName, listFails) ==
    /\ PoolHasSynced
    /\ IF listFails
       THEN /\ models' = models
            /\ modelRet' = ModelRet("ModelResync", FALSE, <<"fmt.wrapError", "list error">>)
       ELSE \E items \in Orderings(List(modelName, pool[1].Namespace)) :
                LET oldest == oldestOf(items, modelName, <<>>)
                IN  IF Len(items) = 0 \/ oldest = <<>>
                    THEN /\ models' = models
                         /\ modelRet' = ModelRet("ModelResync", FALSE, NilErr)
                    ELSE /\ models' = Store(models, modelName, oldest[1])
                         /\ modelRet' = ModelRet("ModelResync", TRUE, NilErr)
    /\ UNCHANGED <<procVars, handleVars, pods, sessions, lastSet, schedVars, sweepVars, pool, cluster,
                   historyVars>>

(***************************************************************************)
(* poolAndModelsMu.  A sync.RWMutex: a writer first announces itself and   *)
(* then waits for the read locks already granted; once a writer has        *)
(* announced itself no read lock is granted until it has unlocked.         *)
(***************************************************************************)
Readers == {"r1", "r2"}
Writers == {"w1"}
NoOne == ""

Unlocked == [readers |-> 0, pending |-> NoOne, writer |-> NoOne]

\* RLock returns
RLock ==
    /\ mu.pending = NoOne
    /\ mu.writer = NoOne
    /\ mu' = [mu EXCEPT !.readers = @ + 1]

RUnlock == mu' = [mu EXCEPT !.readers = @ - 1]

errPoolNotSynced == "InferencePool is not initialized in data store"
NoPoolGetRet == [pool |-> NilPool, err |-> NilErr]

\* PoolGet that hands out ds.pool without the PoolHasSynced test.
PoolGetNoSyncTest == [pool |-> pool, err |-> NilErr]

\* What PoolGet returns in the current state.
PoolGet ==
    IF ~PoolHasSynced
    THEN [pool |-> NilPool, err |-> <<errPoolNotSynced>>]
    ELSE [pool |-> pool, err |-> NilErr]

\* PoolGet: ds.poolAndModelsMu.RLock()
PoolGetRLock(r) ==
    /\ lockPc[r] = "idle"
    /\ RLock
    /\ lockPc' = [lockPc EXCEPT ![r] = "PoolHasSynced"]
    /\ UNCHANGED <<handleVars, podProcVars, pickerVars, pods, sessions, lastSet, schedVars, sweepVars, modelVars, poolGetRet>>

\* PoolHasSynced, called by PoolGet: ds.poolAndModelsMu.RLock()
PoolHasSyncedRLock(r) ==
    /\ lockPc[r] = "PoolHasSynced"
    /\ RLock
    /\ lockPc' = [lockPc EXCEPT ![r] = "synced"]
    /\ UNCHANGED <<handleVars, podProcVars, pickerVars, pods, sessions, lastSet, schedVars, sweepVars, modelVars, poolGetRet>>

\* PoolHasSynced: return ds.pool != nil, and the deferred RUnlock
PoolHasSyncedReturn(r) ==
    /\ lockPc[r] = "synced"
    /\ RUnlock
    /\ lockPc' = [lockPc EXCEPT ![r] = "return"]
    /\ UNCHANGED <<handleVars, podProcVars, pickerVars, pods, sessions, lastSet, schedVars, sweepVars, modelVars, poolGetRet>>

\* PoolGet: the return, and the deferred RUnlock
PoolGetReturn(r) ==
    /\ lockPc[r] = "return"
    /\ RUnlock
    /\ poolGetRet' = [poolGetRet EXCEPT ![r] = PoolGet]
    /\ lockPc' = [lockPc EXCEPT ![r] = "idle"]
    /\ UNCHANGED <<handleVars, podProcVars, pickerVars, pods, sessions, lastSet, schedVars, sweepVars, modelVars>>

\* Lock of a writer (PoolSet, Clear): the writer announces itself
WriterLock(w) ==
    /\ lockPc[w] = "idle"
    /\ mu.pending = NoOne
    /\ mu.writer = NoOne
    /\ mu' = [mu EXCEPT !.pending = w]
    /\ lockPc' = [lockPc EXCEPT ![w] = "Lock"]
    /\ UNCHANGED <<handleVars, podProcVars, pickerVars, pods, sessions, lastSet, schedVars, sweepVars, modelVars, poolGetRet>>

\* Lock returns: the read locks granted before are released
WriterLocked(w) ==
    /\ lockPc[w] = "Lock"
    /\ mu.readers = 0
    /\ mu' = [mu EXCEPT !.pending = NoOne, !.writer = w]
    /\ lockPc' = [lockPc EXCEPT ![w] = "locked"]
    /\ UNCHANGED <<handleVars, podProcVars, pickerVars, pods, sessions, lastSet, schedVars, sweepVars, modelVars, poolGetRet>>

\* PoolSet under the lock, and the deferred Unlock
PoolSetUnlock(w, p) ==
    /\ lockPc[w] = "locked"
    /\ pool' = <<p>>
    /\ mu' = Unlocked
    /\ lockPc' = [lockPc EXCEPT ![w] = "idle"]
    /\ UNCHANGED <<handleVars, podProcVars, pickerVars, pods, sessions, lastSet, schedVars, sweepVars, models, cluster,
                   historyVars, modelRet, poolGetRet>>

\* Clear under the lock, and the deferred Unlock
ClearUnlock(w) ==
    /\ lockPc[w] = "locked"
    /\ pool' = NilPool
    /\ models' = EmptyMap
    /\ pods' = EmptyMap
    /\ podHandle' = EmptyMap
    /\ mu' = Unlocked
    /\ lockPc' = [lockPc EXCEPT ![w] = "idle"]
    /\ UNCHANGED <<podProcVars, pickerVars, loops, stoppedAgain, podRet, sessions, lastSet, schedVars,
                   sweepVars, cluster, historyVars, modelRet, poolGetRet>>

(***************************************************************************)
(* Specifications of the scheduling pipeline                               *)
(***************************************************************************)
Init ==
    /\ pods = EmptyMap
    /\ sessions = EmptyMap
    /\ schedPc = "idle"
    /\ schedReq = NoRequest
    /\ PodsSnapshot = <<>>
    /\ filterOut = NoFilterOut
    /\ schedRet = NoRet
    /\ now = 0
    /\ parentCtxDone = FALSE
    /\ nextTick = sessionKeepAliveCheckFrequency
    /\ sweepPc = "idle"
    /\ sweepNow = 0
    /\ sweepKeys = {}
    /\ sweepKey = ""
    /\ lastSet = [id \in SessionIDs |-> [pod |-> NilPod, over |-> FALSE]]
    /\ pool = NilPool
    /\ models = EmptyMap
    /\ cluster = {}
    /\ submitted = EmptyMap
    /\ recreated = FALSE
    /\ renamed = FALSE
    /\ modelRet = NoModelRet
    /\ mu = Unlocked
    /\ lockPc = [p \in Readers \cup Writers |-> "idle"]
    /\ poolGetRet = [r \in Readers |-> NoPoolGetRet]
    /\ podHandle = EmptyMap
    /\ loops = {}
    /\ stoppedAgain = {}
    /\ podRet = FALSE
    /\ delPc = [d \in Deleters |-> [pc |-> "idle", v |-> NoHandle]]
    /\ addPc = [a \in Adders |-> AdderIdle]
    /\ podsCache = EmptyMap
    /\ pickRet = NoPick
    /\ pickPc = [g \in Pickers |-> PickerIdle]
    /\ picked = [k \in PodKeys |-> 0]
    /\ ctxDone = FALSE

Schedule ==
    \/ \E done \in BOOLEAN, req \in LLMRequests, snapshot \in PodGetAll :
           ScheduleSnapshot(done, req, snapshot)
    \/ ScheduleFilter
    \/ \E answer \in IndexerAnswers : ScheduleScore(answer)
    \/ ScheduleReturn

\* The datastore's callers take turns with the scheduler: pods and sessions
\* change between Schedule calls.
NextSeq ==
    \/ Schedule
    \/ schedPc = "idle" /\ \E k \in PodKeys, m \in Metrics : PodUpdateOrAddIfNotExist(k, m)
    \/ schedPc = "idle" /\ \E k \in PodKeys : PodDelete(k)
    \/ schedPc = "idle" /\ \E pod \in PodKeys : SetPodForSession("s1", pod)

SpecSeq == Init /\ [][NextSeq]_vars

\* Pods and sessions change while a Schedule call runs.
NextConc ==
    \/ Schedule
    \/ \E k \in PodKeys, m \in ChurnMetrics : PodUpdateOrAddIfNotExist(k, m)
    \/ \E k \in PodKeys : PodDelete(k)
    \/ \E pod \in PodKeys : SetPodForSession("s1", pod)
    \/ \E k \in PodKeys, m \in ChurnMetrics : RefreshMetrics(k, m)

SpecConc == Init /\ [][NextConc]_vars

(***************************************************************************)
(* Session table: the clock and cleanupSessions.  A sweep takes no time:   *)
(* the clock stands still from the tick to the end of the Range, while     *)
(* SetPodForSession calls interleave with the steps of the sweep.          *)
(***************************************************************************)
\* The clock advances when the cleanup task waits for a tick that is not due,
\* or has returned.
Tick ==
    /\ now < MaxTime
    /\ \/ sweepPc = "stopped"
       \/ sweepPc = "idle" /\ now < nextTick
    /\ now' = now + 1
    /\ UNCHANGED <<procVars, handleVars, pods, sessions, lastSet, schedVars, parentCtxDone, nextTick,
                   sweepPc, sweepNow, sweepKeys, sweepKey, modelVars>>

CancelParent ==
    /\ ~parentCtxDone
    /\ parentCtxDone' = TRUE
    /\ UNCHANGED <<procVars, handleVars, pods, sessions, lastSet, schedVars, now, nextTick,
                   sweepPc, sweepNow, sweepKeys, sweepKey, modelVars>>

\* case now := <-ticker.C (select may take it also when parentCtx is done)
SweepTick ==
    /\ sweepPc = "idle"
    /\ now = nextTick
    /\ sweepNow' = now
    /\ nextTick' = nextTick + sessionKeepAliveCheckFrequency
    /\ sweepKeys' = DOMAIN sessions
    /\ sweepPc' = "range"
    /\ UNCHANGED <<procVars, handleVars, pods, sessions, lastSet, schedVars, now, parentCtxDone, sweepKey,
                   modelVars>>

\* The Range callback for one key, up to its Delete.
SweepVisit(sessionID) ==
    /\ sweepPc = "range"
    /\ sessionID \in sweepKeys
    /\ sweepKeys' = sweepKeys \ {sessionID}
    /\ IF /\ sessionID \in DOMAIN sessions
          /\ sweepNow - sessions[sessionID].lru > sessionKeepAliveTime
       THEN sweepPc' = "delete" /\ sweepKey' = sessionID
       ELSE UNCHANGED <<sweepPc, sweepKey>>
    /\ UNCHANGED <<procVars, handleVars, pods, sessions, lastSet, schedVars, now, parentCtxDone, nextTick,
                   sweepNow, modelVars>>

\* SweepDelete with a callback that returns false: the Range ends there.
SweepDeleteAndStop ==
    /\ sweepPc = "delete"
    /\ sessions' = Delete(sessions, sweepKey)
    /\ sweepKey' = ""
    /\ sweepKeys' = {}
    /\ sweepPc' = "range"
    /\ UNCHANGED <<procVars, handleVars, pods, lastSet, schedVars, now, parentCtxDone, nextTick, sweepNow,
                   modelVars>>

\* ds.sessions.Delete(sessionID); return true
SweepDelete ==
    /\ sweepPc = "delete"
    /\ sessions' = Delete(sessions, sweepKey)
    /\ sweepKey' = ""
    /\ sweepPc' = "range"
    /\ UNCHANGED <<procVars, handleVars, pods, lastSet, schedVars, now, parentCtxDone, nextTick, sweepNow,
                   sweepKeys, modelVars>>

\* The Range has visited every key: back to the select.
SweepEnd ==
    /\ sweepPc = "range"
    /\ sweepKeys = {}
    /\ sweepPc' = "idle"
    /\ UNCHANGED <<procVars, handleVars, pods, sessions, lastSet, schedVars, now, parentCtxDone, nextTick,
                   sweepNow, sweepKeys, sweepKey, modelVars>>

\* SweepStop that goes back to the select instead of returning.
SweepStopAndGoOn ==
    /\ sweepPc = "idle"
    /\ parentCtxDone
    /\ sweepPc' = "idle"
    /\ UNCHANGED <<procVars, handleVars, pods, sessions, lastSet, schedVars, now, parentCtxDone, nextTick,
                   sweepNow, sweepKeys, sweepKey, modelVars>>

\* case <-ds.parentCtx.Done(): return
SweepStop ==
    /\ sweepPc = "idle"
    /\ parentCtxDone
    /\ sweepPc' = "stopped"
    /\ UNCHANGED <<procVars, handleVars, pods, sessions, lastSet, schedVars, now, parentCtxDone, nextTick,
                   sweepNow, sweepKeys, sweepKey, modelVars>>

cleanupSessions ==
    \/ SweepTick
    \/ \E sessionID \in SessionIDs : SweepVisit(sessionID)
    \/ SweepDelete
    \/ SweepEnd
    \/ SweepStop

NextSession ==
    \/ Tick
    \/ CancelParent
    \/ cleanupSessions
    \/ \E sessionID \in SessionIDs, pod \in PodKeys : SetPodForSession(sessionID, pod)

SpecSession == Init /\ [][NextSession]_vars

\* The cleanup goroutine is scheduled: a Range that has begun goes on to its
\* end, and a select that finds parentCtx.Done() ready again and again takes
\* that case at some time (select chooses at random among the ready cases).
SpecSessionFair ==
    /\ SpecSession
    /\ WF_vars(\E sessionID \in SessionIDs : SweepVisit(sessionID))
    /\ WF_vars(SweepDelete)
    /\ WF_vars(SweepEnd)
    /\ SF_vars(SweepStop)

(***************************************************************************)
(* Specifications of the model registry                                    *)
(***************************************************************************)
\* Any sequence of ModelSetIfOlder calls.
NextModels ==
    \E infModel \in SubmittedModels : ModelSetIfOlder(infModel) /\ Submit(infModel)

SpecModels == Init /\ [][NextModels]_vars

\* The registry next to the API server its objects come from.
NextResync ==
    \/ \E p \in InferencePools : PoolSet(p)
    \/ Clear
    \/ \E infModel \in Catalogue : ClusterCreate(infModel)
    \/ \E infModel \in cluster : ClusterMarkDeleted(infModel)
    \/ \E infModel \in cluster : ClusterRemove(infModel)
    \/ \E infModel \in cluster :
           /\ ~infModel.Deleted
           /\ ModelSetIfOlder(infModel)
           /\ UNCHANGED historyVars
    \/ \E infModel \in Catalogue : ModelDelete(ID(infModel))
    \/ \E modelName \in ModelNames, listFails \in BOOLEAN :
           ModelResync(modelName, listFails)

SpecResync == Init /\ [][NextResync]_vars

(***************************************************************************)
(* Specification of the pool under its lock: PoolGet callers next to the   *)
(* writers PoolSet and Clear.                                              *)
(***************************************************************************)
NextLock ==
    \/ \E r \in Readers :
           \/ PoolGetRLock(r)
           \/ PoolHasSyncedRLock(r)
           \/ PoolHasSyncedReturn(r)
           \/ PoolGetReturn(r)
    \/ \E w \in Writers :
           \/ WriterLock(w)
           \/ WriterLocked(w)
           \/ \E p \in InferencePools : PoolSetUnlock(w, p)
           \/ ClearUnlock(w)

SpecLock == Init /\ [][NextLock]_vars

(***************************************************************************)
(* Specifications of the pod map: the reconciler's calls next to           *)
(* concurrent PodDelete callers, without and with Clear.                   *)
(***************************************************************************)
NextPods ==
    \/ \E k \in ResyncPodKeys, m \in FreshMetrics : PodUpdateOrAddIfNotExist(k, m)
    \/ \E d \in Deleters, k \in ResyncPodKeys : PodDeleteLoadAndDelete(d, k)
    \/ \E d \in Deleters : PodDeleteStop(d)
    \/ \E podList \in PodLists, listFails \in BOOLEAN, m \in FreshMetrics :
           PodResyncAll(podList, listFails, m)

SpecPods == Init /\ [][NextPods]_vars

NextPodsClear ==
    \/ NextPods
    \/ Clear

SpecPodsClear == Init /\ [][NextPodsClear]_vars

(***************************************************************************)
(* Specification of the pod map under concurrent callers of                *)
(* PodUpdateOrAddIfNotExist and of PodDelete.                              *)
(***************************************************************************)
NextPodsConc ==
    \/ \E a \in Adders, k \in PodKeys, m \in FreshMetrics : PodAddLoad(a, k, m)
    \/ \E a \in Adders : PodAddNewPodMetrics(a)
    \/ \E a \in Adders : PodAddStore(a)
    \/ \E d \in Deleters, k \in PodKeys : PodDeleteLoadAndDelete(d, k)
    \/ \E d \in Deleters : PodDeleteStop(d)

SpecPodsConc == Init /\ [][NextPodsConc]_vars

(***************************************************************************)
(* Specification of the pickers: Pick calls one after the other.  HotPod   *)
(* is a candidate of any number of calls, another pod while it has fewer   *)
(* than MaxUsages usages.  RandomPicker keeps no state: its calls are      *)
(* taken on the fresh process.                                             *)
(***************************************************************************)
MaxUsages == 1
HotPod == "default/p1"

NextPicker ==
    \/ \E scoredPods \in CandidateLists :
           /\ \A k \in Range(scoredPods) \ {HotPod} :
                  k \in DOMAIN podsCache => podsCache[k] < MaxUsages
           /\ LRUPickerPick(scoredPods)
    \/ \E podList \in CandidateLists :
           /\ podsCache = EmptyMap
           /\ RandomPickerPick(podList)

SpecPicker == Init /\ [][NextPicker]_vars

(***************************************************************************)
(* Specification of the LRU picker under concurrent callers.               *)
(***************************************************************************)
NextPickerConc ==
    \/ \E g \in Pickers, scoredPods \in CandidateLists : LRUPickScan(g, scoredPods)
    \/ \E g \in Pickers : LRUPickRead(g)
    \/ \E g \in Pickers : LRUPickWrite(g)
    \/ \E g \in Pickers : LRUPickThrow(g)

SpecPickerConc == Init /\ [][NextPickerConc]_vars

(***************************************************************************)
(* Specification of the LRU picker with one candidate set: every call is   *)
(* given the pods of the first call, in any order.                         *)
(***************************************************************************)
NextPickerFixed ==
    \E scoredPods \in CandidateLists :
        /\ pickRet = NoPick \/ Range(scoredPods) = Range(pickRet.scoredPods)
        /\ LRUPickerPick(scoredPods)

SpecPickerFixed == Init /\ [][NextPickerFixed]_vars

(***************************************************************************)
(* Claims about the scheduling pipeline                                    *)
(***************************************************************************)
SnapshotNames == {PodsSnapshot[i].NamespacedName : i \in 1..Len(PodsSnapshot)}

Returned == schedPc = "done" /\ schedRet.targetPod # <<>>

\* C1: a pod that Schedule returns is a member of the snapshot the call took at
\* its entry, whatever pods are added and deleted while the call runs.
C1_ReturnedPodInSnapshot ==
    /\ Range(filterOut.pods) \subseteq Range(PodsSnapshot)
    /\ Returned => schedRet.targetPod[1] \in Range(PodsSnapshot)

\* A pod is returned that was deleted from the datastore during the call, while
\* the datastore holds a pod the snapshot has not.
C1_Witness ==
    /\ Returned
    /\ schedRet.targetPod[1].NamespacedName \notin DOMAIN pods
    /\ DOMAIN pods # {}

Filtered == schedPc \in {"score", "done"}

NotResourceExhausted == InferencePoolResourceExhausted \notin Range(schedRet.err)

\* C2: a sheddable request whose snapshot has a pod with QueueDepth <=
\* QueueThresholdCritical and KVCacheUtilization <= KVCacheThreshold never
\* reaches dropRequestFilter and does not fail with InferencePoolResourceExhausted
\* (in a call whose ctx is not cancelled).
C2_SheddableNotDropped ==
    ( /\ Filtered
      /\ ~ctxDone
      /\ ~schedReq.Critical
      /\ \E i \in 1..Len(PodsSnapshot) : hasCapacityPredicate(PodsSnapshot[i]) )
    => /\ "drop request" \notin filterOut.ran
       /\ filterOut.err = NilErr
       /\ NotResourceExhausted

\* A sheddable request got a pod from a snapshot in which one pod has capacity
\* and another has not.
C2_Witness ==
    /\ Returned
    /\ ~schedReq.Critical
    /\ \E i, j \in 1..Len(PodsSnapshot) :
          /\ hasCapacityPredicate(PodsSnapshot[i])
          /\ ~hasCapacityPredicate(PodsSnapshot[j])

\* C3: for a critical request and a snapshot with at least one pod, the critical
\* tree never runs dropRequestFilter and leaves at least one pod, so Schedule
\* never returns InferencePoolResourceExhausted (in a call whose ctx is not
\* cancelled).
C3_CriticalNeverExhausted ==
    (Filtered /\ ~ctxDone /\ schedReq.Critical /\ Len(PodsSnapshot) >= 1)
    => /\ "drop request" \notin filterOut.ran
       /\ filterOut.err = NilErr
       /\ Len(filterOut.pods) >= 1
       /\ NotResourceExhausted

\* A critical request for an adapter got a pod although every pod of the
\* snapshot is queueing, above the KV-cache threshold and has no room for the
\* adapter.
C3_Witness ==
    /\ Returned
    /\ schedReq.Critical
    /\ schedReq.Model \in Adapters
    /\ Len(PodsSnapshot) = 2
    /\ \A i \in 1..Len(PodsSnapshot) :
          /\ ~queueThresholdPredicate(PodsSnapshot[i])
          /\ ~kvCacheThresholdPredicate(PodsSnapshot[i])
          /\ ~loRAAffinityPredicate(schedReq, PodsSnapshot[i])

\* C4: for a sheddable request and a snapshot of pods none of which has
\* capacity, Schedule returns no pod and the error it returns is the admission
\* error itself: an error whose code is InferencePoolResourceExhausted (in a
\* call whose ctx is not cancelled).
C4_AdmissionErrorSurfaced ==
    ( /\ schedPc = "done"
      /\ ~ctxDone
      /\ ~schedReq.Critical
      /\ Len(PodsSnapshot) >= 1
      /\ \A i \in 1..Len(PodsSnapshot) : ~hasCapacityPredicate(PodsSnapshot[i]) )
    => /\ schedRet.targetPod = <<>>
       /\ schedRet.err # NilErr
       /\ Head(schedRet.err) = InferencePoolResourceExhausted

\* The KV-cache hit an answer of the indexer gives a pod.
Hit(answer, pod) ==
    IF pod.Address \in DOMAIN answer.scores THEN answer.scores[pod.Address] ELSE 0

\* C5: when the request has a session whose stored pod is in the snapshot, no
\* pod of the snapshot is congested and the indexer gives every pod of the
\* snapshot the same KV-cache score, Schedule returns the session's pod, even
\* when another pod has a lower queue depth.
C5_SessionPodReturned ==
    [][ ( /\ schedPc = "score"
          /\ schedReq.SessionID # ""
          /\ GetPodForSession(schedReq.SessionID) \in SnapshotNames
          /\ \A i \in 1..Len(PodsSnapshot) : hasCapacityPredicate(PodsSnapshot[i]) )
        => \A answer \in IndexerAnswers :
              ( /\ ScheduleScore(answer)
                /\ ~answer.failed
                /\ \A i, j \in 1..Len(PodsSnapshot) :
                      Hit(answer, PodsSnapshot[i]) = Hit(answer, PodsSnapshot[j]) )
              => /\ schedRet'.targetPod # <<>>
                 /\ schedRet'.targetPod[1].NamespacedName =
                        GetPodForSession(schedReq.SessionID)
      ]_vars

(***************************************************************************)
(* Claims about the session table                                          *)
(***************************************************************************)
Age(sessionID) == now - sessions[sessionID].lru

\* C9: while the parent lifetime has not ended, a session that is still in the
\* table was refreshed at most keepAlive plus one check interval ago, and once
\* the sweep of a tick has finished no session that was idle for longer than
\* keepAlive at that tick is left: GetPodForSession returns nil for it.
C9_SessionTTL ==
    ~parentCtxDone =>
        \A sessionID \in DOMAIN sessions :
            /\ Age(sessionID) <= sessionKeepAliveTime + sessionKeepAliveCheckFrequency
            /\ sweepPc = "idle" =>
                   (nextTick - sessionKeepAliveCheckFrequency) - sessions[sessionID].lru
                       <= sessionKeepAliveTime

\* A session that was set, idled past keepAlive and was removed by the sweep,
\* next to one that has reached the age of keepAlive plus one interval.
C9_Witness ==
    /\ ~parentCtxDone
    /\ lastSet["s1"].pod # NilPod
    /\ GetPodForSession("s1") = NilPod
    /\ "s2" \in DOMAIN sessions
    /\ Age("s2") = sessionKeepAliveTime + sessionKeepAliveCheckFrequency

\* C10: a session in the table maps to one pod, the pod of the last completed
\* SetPodForSession for that session, whatever calls and sweep steps interleave.
C10_LastWriterWins ==
    \A sessionID \in SessionIDs :
        \/ GetPodForSession(sessionID) = NilPod
        \/ GetPodForSession(sessionID) = lastSet[sessionID].pod

\* The last SetPodForSession replaced another pod, and its pod is the one read.
C10_Witness ==
    /\ lastSet["s1"].over
    /\ GetPodForSession("s1") = lastSet["s1"].pod
    /\ GetPodForSession("s1") # NilPod

(***************************************************************************)
(* Claims about the model registry                                         *)
(***************************************************************************)
\* The live objects submitted with a model name: the last version of each.
Candidates(modelName) ==
    { submitted[id] : id \in { i \in DOMAIN submitted : submitted[i].ModelName = modelName } }

EntryIsEarliest ==
    \A modelName \in ModelNames :
        /\ modelName \in DOMAIN models => models[modelName] \in Candidates(modelName)
        /\ \A c \in Candidates(modelName) :
               /\ modelName \in DOMAIN models
               /\ models[modelName].CreationTimestamp <= c.CreationTimestamp

\* C6 as stated, for the calls that keep the model name of every object: after
\* any sequence of ModelSetIfOlder calls, re-submissions of a stored object with
\* a new creation timestamp included, the entry of each model name is the
\* candidate with the earliest creation timestamp among the live objects.
C6_EntryIsEarliestLive == ~renamed => EntryIsEarliest

\* C6 amended: after any sequence of ModelSetIfOlder calls in which every object
\* comes with the same model name and creation timestamp each time, the entry of
\* each model name is a candidate with the earliest creation timestamp.
C6_EntryIsEarliestUnlessRecreated == (~renamed /\ ~recreated) => EntryIsEarliest

\* Three objects of one model name, the entry has the earliest timestamp, a
\* candidate has the latest, and the last call was turned down.
C6_Witness ==
    /\ ~renamed /\ ~recreated
    /\ Cardinality(Candidates("m")) = 3
    /\ ModelGet("m") # <<>>
    /\ models["m"].CreationTimestamp = 1
    /\ \E c \in Candidates("m") : c.CreationTimestamp = MaxTimestamp
    /\ modelRet.op = "ModelSetIfOlder" /\ ~modelRet.ok

\* C7: ModelSetIfOlder(m) returns true exactly when ModelGet(m.ModelName) gives
\* the incoming object right after the call, and a call that returns false
\* leaves the registry as it was.
C7_TrueIffStored ==
    [][\A infModel \in SubmittedModels :
           ModelSetIfOlder(infModel) =>
               /\ modelRet'.ok <=> (ModelGet(infModel.ModelName)' = <<infModel>>)
               /\ ~modelRet'.ok => models' = models]_vars

\* A call was turned down while both model names have an entry.
C7_Witness ==
    /\ modelRet.op = "ModelSetIfOlder"
    /\ ~modelRet.ok
    /\ ModelGet("m") # <<>>
    /\ ModelGet("n") # <<>>

\* Listed models of the name that belong to the pool and are not marked for
\* deletion.
Eligible(modelName) ==
    { o \in cluster : /\ o.ModelName = modelName
                      /\ o.Namespace = pool[1].Namespace
                      /\ o.PoolRef = pool[1].Name
                      /\ ~o.Deleted }

ResyncInstallsOldest ==
    \A modelName \in ModelNames, listFails \in BOOLEAN :
        (modelRet'.op = "ModelResync" /\ ModelResync(modelName, listFails)) =>
            LET eligible == IF listFails THEN {} ELSE Eligible(modelName)
            IN  /\ modelRet'.ok <=> eligible # {}
                /\ modelRet'.ok =>
                       /\ ModelGet(modelName)' \in { <<o>> : o \in eligible }
                       /\ \A o \in eligible :
                              models'[modelName].CreationTimestamp <= o.CreationTimestamp
                       /\ \A other \in ModelNames \ {modelName} :
                              ModelGet(other)' = ModelGet(other)
                /\ ~modelRet'.ok => models' = models

T1 == InferenceModel("ns1", "a", "m", 1, PoolName, FALSE)
T2 == InferenceModel("ns2", "a", "m", 2, PoolName, FALSE)

\* m@ns1 (t=1) and m@ns2 (t=2) were the objects of the name, the t=1 object is
\* gone or on its way out, and its entry has just been deleted.
AfterDeleteOfT1 ==
    /\ PoolHasSynced
    /\ T2 \in cluster
    /\ { o \in cluster : o.ModelName = "m" /\ ~o.Deleted } = {T2}
    /\ modelRet.op = "ModelDelete" /\ modelRet.model = <<T1>>
    /\ ModelGet("m") = <<>>

\* C8 as stated: ModelResync installs the oldest listed model of the name that
\* belongs to the pool and is not marked for deletion and returns true exactly
\* when there is one; after m@ns1 (t=1) and m@ns2 (t=2), the delete of the t=1
\* object and a resync, ModelGet returns the t=2 object.
C8_ResyncReturnsT2 ==
    [][/\ ResyncInstallsOldest
       /\ (AfterDeleteOfT1 /\ ModelResync("m", FALSE)) => ModelGet("m")' = <<T2>>]_vars

\* C8 amended: the same, with the t=2 object found by the resync when it is in
\* the namespace of the pool, the only namespace ModelResync lists.
C8_ResyncReturnsT2InPoolNamespace ==
    [][/\ ResyncInstallsOldest
       /\ (AfterDeleteOfT1 /\ pool[1].Namespace = T2.Namespace /\ ModelResync("m", FALSE))
              => ModelGet("m")' = <<T2>>]_vars

\* The resync after the delete of the t=1 object has installed the t=2 object.
C8_Witness ==
    /\ PoolHasSynced
    /\ pool[1].Namespace = T2.Namespace
    /\ modelRet.op = "ModelResync" /\ modelRet.ok
    /\ ModelGet("m") = <<T2>>
    /\ { o \in cluster : o.ModelName = "m" /\ ~o.Deleted } = {T2}
    /\ [T1 EXCEPT !.Deleted = TRUE] \in cluster

(***************************************************************************)
(* Claims about the pool and its lock                                      *)
(***************************************************************************)
\* C11: PoolGet fails with errPoolNotSynced exactly when no pool is held, at
\* the start and after a Clear, otherwise it returns the pool of the last
\* PoolSet; PoolHasSynced is true exactly when PoolGet succeeds.
C11_PoolGet ==
    /\ PoolGet = [pool |-> NilPool, err |-> <<errPoolNotSynced>>]
    /\ [][/\ \A p \in InferencePools :
                 PoolSet(p) => PoolGet' = [pool |-> <<p>>, err |-> NilErr]
          /\ Clear => PoolGet' = [pool |-> NilPool, err |-> <<errPoolNotSynced>>]
          /\ pool' = pool => PoolGet' = PoolGet
          /\ PoolHasSynced' <=> (PoolGet'.err = NilErr)]_vars

\* A pool is held while the registry has an entry: PoolGet succeeds.
C11_Witness ==
    /\ PoolHasSynced
    /\ PoolGet.err = NilErr
    /\ PoolGet.pool = <<[Namespace |-> "ns2", Name |-> PoolName]>>
    /\ ModelGet("m") # <<>>

\* The callers that hold the lock or were granted a read lock they still hold.
CanGoOn(p) ==
    \/ lockPc[p] \in {"synced", "return", "locked"}
    \/ lockPc[p] = "Lock" /\ mu.readers = 0
    \/ lockPc[p] = "PoolHasSynced" /\ mu.pending = NoOne /\ mu.writer = NoOne

\* C12: a PoolGet call that runs next to the writers of the lock returns: in no
\* state are the callers inside a call all blocked on the lock.
C12_PoolGetReturns ==
    (\E p \in Readers \cup Writers : lockPc[p] # "idle")
        => \E p \in Readers \cup Writers : CanGoOn(p)

(***************************************************************************)
(* Claims about the pod map                                                *)
(***************************************************************************)
Stored == { podHandle[k] : k \in DOMAIN podHandle }
Held == { delPc[d].v : d \in { x \in Deleters : delPc[x].pc = "StopRefreshLoop" } }

\* C13: PodDelete removes the entry and stops its handle once: under concurrent
\* and repeated calls no handle gets StopRefreshLoop twice, a removed handle is
\* held by one caller only, who stops it, and a call for an absent key holds
\* nothing.
C13_StoppedOnce ==
    /\ stoppedAgain = {}
    /\ DOMAIN podHandle = DOMAIN pods
    /\ Stored \cap Held = {}
    /\ \A d1, d2 \in Deleters :
           (d1 # d2 /\ delPc[d1].pc = "StopRefreshLoop" /\ delPc[d2].pc = "StopRefreshLoop")
               => delPc[d1].v # delPc[d2].v
    /\ loops = Stored \cup Held

\* Two callers have removed two handles of one key and are about to stop them.
C13_Witness ==
    /\ delPc["d1"].pc = "StopRefreshLoop"
    /\ delPc["d2"].pc = "StopRefreshLoop"
    /\ delPc["d1"].v[1] = "default/p1"
    /\ delPc["d2"].v[1] = "default/p1"
    /\ "default/p1" \notin DOMAIN pods

\* C14: a pod entry that Clear removes has its refresh loop stopped, as one
\* that PodDelete removes: the loops that run are those of the stored handles
\* and of the handles a PodDelete caller is about to stop.
C14_ClearStopsLoops ==
    /\ stoppedAgain = {}
    /\ loops \subseteq Stored \cup Held

\* C15: PodUpdateOrAddIfNotExist returns whether the pod was stored; the call
\* for a pod not stored makes one handle, the call for a stored pod makes none
\* and leaves the map as it is, and PodGetAll holds the pod once.
C15_OneLogicalEntry ==
    [][\A k \in ResyncPodKeys, m \in FreshMetrics :
           PodUpdateOrAddIfNotExist(k, m) =>
               /\ podRet' <=> k \in DOMAIN pods
               /\ k \notin DOMAIN pods => Cardinality(loops' \ loops) = 1
               /\ k \in DOMAIN pods =>
                      /\ loops' = loops
                      /\ podHandle' = podHandle
                      /\ pods' = pods
               /\ \A l \in PodGetAll' :
                      Cardinality({ i \in 1..Len(l) : l[i].NamespacedName = k }) = 1]_vars

\* The second call has returned true for a pod stored once with one handle.
C15_Witness ==
    /\ podRet
    /\ DOMAIN pods = {"default/p1"}
    /\ loops = {<<"default/p1", 1>>}

\* C16: after a PodResyncAll with a successful listing the stored pods are the
\* ready pods of the list.
C16_StoredEqualsReady ==
    [][\A podList \in PodLists, m \in FreshMetrics :
           PodResyncAll(podList, FALSE, m) =>
               DOMAIN pods' = { k \in DOMAIN podList : podList[k] }]_vars

C18_PickReturnsCandidate ==
    pickRet # NoPick =>
        /\ ~pickRet.panic
        /\ pickRet.TargetPod # <<>>
        /\ pickRet.TargetPod[1] \in Range(pickRet.scoredPods)

(***************************************************************************)
(* Claims about the result of Schedule                                     *)
(***************************************************************************)
Uncongested(pod) ==
    /\ pod.QueueDepth <= defaultQueueThresholdCritical
    /\ pod.KVCacheUtilization <= defaultKVCacheThreshold

\* No session, two uncongested pods, and the indexer scores 0.9 for
\* default/p1 and 0.1 for default/p2.
ScenarioAOverB(answer) ==
    /\ schedReq.SessionID = ""
    /\ SnapshotNames = PodKeys
    /\ \A i \in 1..Len(PodsSnapshot) : Uncongested(PodsSnapshot[i])
    /\ ~answer.failed
    /\ answer.scores = [a \in {Address(k) : k \in PodKeys} |->
                           IF a = Address("default/p1") THEN 90 ELSE 10]

\* C19: the pod Schedule returns has the largest combined score (affinity
\* weight 1, KV-cache weight 5, a pod a scorer left out counts 0) among the
\* pods the filter kept; so with no session and indexer scores 0.9 for
\* default/p1 and 0.1 for default/p2 on two uncongested pods, default/p1 is
\* returned.
C19_MaxCombinedScore ==
    [][\A answer \in IndexerAnswers :
           (ScheduleScore(answer) /\ schedRet'.targetPod # <<>>) =>
               LET aff == SessionAffinityScoreTargets(schedReq, filterOut.pods)
                   kv == KVCacheAwareScoreTargets(schedReq, filterOut.pods, answer)
               IN  /\ \A q \in Range(filterOut.pods) :
                          CombinedScore(aff, kv, q)
                              <= CombinedScore(aff, kv, schedRet'.targetPod[1])
                   /\ ScenarioAOverB(answer) =>
                          schedRet'.targetPod[1].NamespacedName = "default/p1"]_vars

\* C20: a Schedule call whose ctx is cancelled before the call returns the
\* Cancelled error and no pod, and leaves the pods, the sessions, the models
\* and the picker's usages as they were.
C20_CancelledCall ==
    /\ [](schedPc = "done" /\ ctxDone =>
              /\ schedRet.targetPod = <<>>
              /\ schedRet.err = <<Cancelled>>)
    /\ [][ctxDone \/ ctxDone' =>
              /\ pods' = pods
              /\ sessions' = sessions
              /\ models' = models
              /\ podsCache' = podsCache]_vars

(***************************************************************************)
(* Claims about the scorers                                                *)
(***************************************************************************)
\* The lists a scorer is given: the stored pods in any order, and the pods the
\* filter of the running call kept.
ScorerInputs == PodGetAll \cup {filterOut.pods}

\* C21: SessionAffinityScorer.ScoreTargets never fails and returns one score
\* per input pod, in input order: every pod scores 0 when the request has no
\* session or no pod is stored for the session, otherwise the pods with the
\* stored pod's namespaced name score 1.0 and the others 0; the scoring step
\* leaves the session table as it is.
C21_AffinityScores ==
    /\ [](\A req \in LLMRequests, podList \in ScorerInputs :
              LET out == SessionAffinityScoreTargets(req, podList)
                  stored == GetPodForSession(req.SessionID)
              IN  /\ out.err = NilErr
                  /\ Len(out.scores) = Len(podList)
                  /\ \A i \in 1..Len(podList) :
                         /\ out.scores[i].Pod = podList[i]
                         /\ out.scores[i].Score \in {0, 100}
                         /\ out.scores[i].Score = 100 <=>
                                /\ req.SessionID # ""
                                /\ stored # NilPod
                                /\ podList[i].NamespacedName = stored)
    /\ [][schedPc = "score" /\ schedPc' = "done" => sessions' = sessions]_vars

\* The scorers are about to score two pods the filter kept, the second of
\* which is the pod of the request's session.
C21_Witness ==
    /\ schedPc = "score"
    /\ schedReq.SessionID = "s1"
    /\ Len(filterOut.pods) = 2
    /\ GetPodForSession("s1") = filterOut.pods[2].NamespacedName

ScoredPods(out) == { out.scores[i].Pod : i \in 1..Len(out.scores) }

\* C22: KVCacheAwareScorer.ScoreTargets returns scores only for pods of its
\* input: every entry is an input pod with the score the indexer gave its
\* address, a pod the indexer did not score and an entry of the indexer for an
\* address that is not in the input are left out, and when the indexer call
\* fails the scorer returns an error and no scores.
C22_KVCacheScores ==
    \A podList \in ScorerInputs, answer \in IndexerAnswers :
        LET out == KVCacheAwareScoreTargets(schedReq, podList, answer)
        IN  /\ \A i \in 1..Len(out.scores) :
                   /\ out.scores[i].Pod \in Range(podList)
                   /\ out.scores[i].Pod.Address \in DOMAIN answer.scores
                   /\ out.scores[i].Score = answer.scores[out.scores[i].Pod.Address]
            /\ \A p \in Range(podList) :
                   p.Address \notin DOMAIN answer.scores => p \notin ScoredPods(out)
            /\ UnknownName \notin { p.Address : p \in ScoredPods(out) }
            /\ (answer.failed /\ Len(podList) > 0) => (out.err # NilErr /\ out.scores = <<>>)
            /\ ~answer.failed => out.err = NilErr

\* Schedule has returned the one pod of two that the indexer scored, the
\* indexer having answered with an entry for an address nobody asked about.
C22_Witness ==
    /\ Returned
    /\ Len(filterOut.pods) = 2
    /\ \E answer \in IndexerAnswers :
           LET out == KVCacheAwareScoreTargets(schedReq, filterOut.pods, answer)
           IN  /\ UnknownName \in DOMAIN answer.scores
               /\ ScoredPods(out) = {schedRet.targetPod[1]}
               /\ schedRet.targetPod[1] \in
                      ScorerManagerScoreTargets(schedReq, filterOut.pods, answer).winners

(***************************************************************************)
(* Claims about the cleanup task                                           *)
(***************************************************************************)
\* C24: the datastore has one session cleanup task; once parentCtx is done the
\* task returns at some time, and a task that has returned stays so and
\* removes no session.
C24_CleanupTerminates ==
    /\ parentCtxDone ~> sweepPc = "stopped"
    /\ [][sweepPc = "stopped" =>
              /\ sweepPc' = "stopped"
              /\ DOMAIN sessions \subseteq DOMAIN sessions']_vars

\* The task has returned in the middle of the life of the session table: a
\* session set after the return is kept past keepAlive.
C24_Witness ==
    /\ sweepPc = "stopped"
    /\ \E sessionID \in DOMAIN sessions :
           /\ Age(sessionID) > sessionKeepAliveTime + sessionKeepAliveCheckFrequency
           /\ sessions[sessionID].lru > 0

\* C26: the sweep removes no session that was refreshed within keepAlive: a
\* SetPodForSession that completes between the sweep's reading of a stale
\* entry and its Delete keeps its entry, so every entry that leaves the table
\* is older than keepAlive.
C26_SweepKeepsRefreshed ==
    [][\A sessionID \in DOMAIN sessions :
           sessionID \notin DOMAIN sessions' =>
               now - sessions[sessionID].lru > sessionKeepAliveTime]_vars

(***************************************************************************)
(* Claims about LRUPicker                                                  *)
(***************************************************************************)
\* The usages of a pod, an unknown pod counting as 0.
Usages(cache, k) == IF k \in DOMAIN cache THEN cache[k] ELSE 0

\* A step is a call of LRUPicker.Pick: the usages change, or the call panics.
LRUPickStep == podsCache' # podsCache \/ (pickRet'.panic /\ ~pickRet.panic)

\* C23: LRUPicker.Pick returns a candidate whose usages before the call are
\* the least of all candidates, an unknown pod counting as 0 and entering the
\* map; the call adds 1 to the usages of the pod it returns and leaves the
\* usages of every other pod as they were.
C23_LeastUsedPicked ==
    [][LRUPickStep =>
           /\ ~pickRet'.panic
           /\ pickRet'.TargetPod # <<>>
           /\ pickRet'.TargetPod[1] \in Range(pickRet'.scoredPods)
           /\ \A k \in Range(pickRet'.scoredPods) :
                  Usages(podsCache, pickRet'.TargetPod[1]) <= Usages(podsCache, k)
           /\ DOMAIN podsCache' = DOMAIN podsCache \cup Range(pickRet'.scoredPods)
           /\ \A k \in DOMAIN podsCache' :
                  podsCache'[k] = Usages(podsCache, k)
                                      + (IF k = pickRet'.TargetPod[1] THEN 1 ELSE 0)]_vars

\* C28: when every call is given the same candidates, beginning with an empty
\* map, the usages of two candidates never differ by more than 1; no key
\* leaves the map and no usage count goes down.
C28_BalancedUsages ==
    /\ [](\A k1, k2 \in Range(pickRet.scoredPods) :
              Usages(podsCache, k1) - Usages(podsCache, k2) <= 1)
    /\ [][/\ DOMAIN podsCache \subseteq DOMAIN podsCache'
          /\ \A k \in DOMAIN podsCache : podsCache[k] <= podsCache'[k]]_vars

\* Two candidates have been picked in turn several times, and one is a pick
\* ahead of the other.
C28_Witness ==
    /\ DOMAIN podsCache = PodKeys
    /\ podsCache["default/p1"] = 3
    /\ podsCache["default/p2"] = 2
    /\ Range(pickRet.scoredPods) = PodKeys

(***************************************************************************)
(* Claims about concurrent callers                                         *)
(***************************************************************************)
\* The handles a PodUpdateOrAddIfNotExist caller has made and is about to store.
Making == { addPc[a].pm : a \in { x \in Adders : addPc[x].pc = "Store" } }

\* C27: under concurrent PodUpdateOrAddIfNotExist and PodDelete calls a handle
\* whose refresh loop runs is the one stored under its key, or is in the
\* hands of a caller who is about to store or to stop it; no handle is stopped
\* twice.  Two first calls for one pod leave no running handle out of reach.
C27_NoOrphanHandle ==
    /\ stoppedAgain = {}
    /\ loops \subseteq Stored \cup Held \cup Making
    /\ \A h \in Stored : \E k \in DOMAIN podHandle : podHandle[k] = h /\ h[1] = k

\* C25: no usage increment of concurrent LRUPicker.Pick calls is lost: when
\* all calls have returned, the usage counts add up to the number of calls and
\* the count of each pod is the number of times it was returned.
C25_NoLostIncrement ==
    (\A g \in Pickers : pickPc[g].pc = "idle") =>
        /\ SumOf([k \in PodKeys |-> Usages(podsCache, k)], PodKeys)
               = SumOf(picked, PodKeys)
        /\ \A k \in PodKeys : Usages(podsCache, k) = picked[k]

====
